---- MODULE Spec2Model ----
(***************************************************************************)
(* A model of improved-edge-connect: the Dataset sample pipeline           *)
(* (src/src/dataset.py) and the network modules (src/src/networks.py).     *)
(*                                                                         *)
(* Images are square grids of InputSize x InputSize pixels.  A mask is a   *)
(* function from pixels to grey values (255 = hole), an edge map is the    *)
(* set of pixels carrying an edge.  File lists are sequences of file ids;  *)
(* Python's index i is position i + 1 of the sequence.                     *)
(***************************************************************************)
EXTENDS Integers, Sequences, FiniteSets, TLC

VARIABLES
    config,     \* the Config handed to Dataset.__init__
    ds,         \* the Dataset object's attributes
    wk,         \* per worker: position in load_item and its local variables
    rng,        \* the two global random generators (numpy's, random's)
    it,         \* the generator create_iterator returned, and its consumer
    net         \* the network module at work: its gate, or its forward pass

-----------------------------------------------------------------------------
(* Bounds.                                                                 *)

\* side of the square the images are resized to (config.INPUT_SIZE)
InputSize == 4
\* number of files in the image list
NumImages == 2
\* states of each global random generator
RngStates == 2
\* number of concurrent loader workers
NumWorkers == 2

Workers == 1..NumWorkers
Pixels == (0..(InputSize - 1)) \X (0..(InputSize - 1))

\* Python's None, for a mask
NoneMask == [p \in {} |-> 0]

-----------------------------------------------------------------------------
(* Files and the external image library.                                   *)

\* grey values of mask file `id`, resized to h x w: the left `id` columns
\* are non-zero (128 in the top row, an interpolation artefact, else 255)
MaskFile(id, h, w) ==
    [p \in (0..(h - 1)) \X (0..(w - 1)) |->
        IF p[2] < id THEN (IF p[1] = 0 THEN 128 ELSE 255) ELSE 0]

\* edge pixels of edge file `id`, resized to h x w
EdgeFile(id, h, w) ==
    {p \in (0..(h - 1)) \X (0..(w - 1)) : (p[1] + p[2] + id) % 2 = 0}

\* (mask > 0).astype(np.uint8) * 255
Threshold(m) == [p \in DOMAIN m |-> IF m[p] > 0 THEN 255 ELSE 0]

\* rgb2gray of a grey image: floats in [0, 1], kept here in units of 1/10000
Rgb2Gray(m) == [p \in DOMAIN m |-> (m[p] * 10000) \div 255]

\* (1 - mask / 255).astype(np.bool): the pixels where 1 - v/255 is non-zero
InvertMask(m) == {p \in DOMAIN m : 255 - m[p] # 0}

\* the pixels of value 255: the hole
Hole(m) == {p \in DOMAIN m : m[p] = 255}

\* skimage's canny without a mask on image `index`: a fixed pattern per
\* image and sigma (larger sigma, fewer edges)
RawEdges(index, sigma) ==
    {p \in Pixels : sigma <= 2 \/ (p[1] + p[2] + index) % 2 = 0}

\* canny(img, sigma=sigma, mask=mask): with a mask, edges only where it is True
Canny(index, sigma, mask) ==
    IF mask.given THEN RawEdges(index, sigma) \cap mask.region
    ELSE RawEdges(index, sigma)

\* utils.create_mask(width, height, mask_width, mask_height, x, y): a hole of
\* mask_width x mask_height at column x, row y; x = -1 (None) centres it
CreateMask(width, height, mask_width, mask_height, x, y) ==
    LET x0 == IF x = -1 THEN (width - mask_width) \div 2 ELSE x
        y0 == IF y = -1 THEN (height - mask_height) \div 2 ELSE y
    IN [p \in (0..(height - 1)) \X (0..(width - 1)) |->
          IF /\ y0 <= p[1] /\ p[1] < y0 + mask_height
             /\ x0 <= p[2] /\ p[2] < x0 + mask_width
          THEN 255 ELSE 0]

\* img[:, ::-1, ...] on a set of pixels, and on a mask
FlipSet(s) == {<<p[1], InputSize - 1 - p[2]>> : p \in s}
FlipMask(m) == [p \in DOMAIN m |-> m[<<p[1], InputSize - 1 - p[2]>>]]

-----------------------------------------------------------------------------
(* Dataset.__init__                                                        *)

DatasetInit_NoForce(cfg, flist, edge_flist, mask_flist, augment, training) ==
    [augment    |-> augment,
     training   |-> training,
     data       |-> flist,
     edge_data  |-> edge_flist,
     mask_data  |-> mask_flist,
     input_size |-> cfg.INPUT_SIZE,
     sigma      |-> cfg.SIGMA,
     edge       |-> cfg.EDGE,
     mask       |-> cfg.MASK,
     nms        |-> cfg.NMS]

DatasetInit(cfg, flist, edge_flist, mask_flist, augment, training) ==
    [augment    |-> augment,
     training   |-> training,
     data       |-> flist,
     edge_data  |-> edge_flist,
     mask_data  |-> mask_flist,
     input_size |-> cfg.INPUT_SIZE,
     sigma      |-> cfg.SIGMA,
     edge       |-> cfg.EDGE,
     mask       |-> IF cfg.MODE = 2 THEN 6 ELSE cfg.MASK,
     nms        |-> cfg.NMS]

\* Dataset.__len__
DatasetLen(d) == Len(d.data)

-----------------------------------------------------------------------------
(* Dataset.load_mask: every outcome the call can have for dataset d and    *)
(* sample `index`.  np / py count the draws from numpy's and random's      *)
(* generator; err is "" when the call returns.                             *)

MaskOutcome(mt, m, none, err, np, py, src) ==
    [mask_type |-> mt, mask |-> m, none |-> none, err |-> err,
     np |-> np, py |-> py, src |-> src]

\* no branch of load_mask taken: the function ends and returns None
MaskFallThrough_Raising(mt, np) ==
    {MaskOutcome(mt, NoneMask, TRUE, "NotImplementedError", np, 0, -1)}

MaskFallThrough(mt, np) ==
    {MaskOutcome(mt, NoneMask, TRUE, "", np, 0, -1)}

\* the branches of load_mask once the local mask_type is settled
MaskByType(d, index, mt, np) ==
    LET imgh == d.input_size
        imgw == d.input_size
    IN CASE mt = 1 ->
              {MaskOutcome(mt, CreateMask(imgw, imgh, imgw \div 2, imgh \div 2, -1, -1),
                           FALSE, "", np, 0, -1)}
         [] mt = 2 ->
              {MaskOutcome(mt, CreateMask(imgw, imgh, imgw \div 2, imgh, x, 0),
                           FALSE, "", np, 1, -1) : x \in {0, imgw \div 2}}
         [] mt = 3 ->
              IF Len(d.mask_data) = 0
              THEN {MaskOutcome(mt, NoneMask, TRUE, "ValueError", np, 0, -1)}
              ELSE {MaskOutcome(mt, Threshold(MaskFile(d.mask_data[mask_index + 1], imgh, imgw)),
                                FALSE, "", np, 1, mask_index)
                      : mask_index \in 0..(Len(d.mask_data) - 1)}
         [] mt = 6 ->
              IF index >= Len(d.mask_data)
              THEN {MaskOutcome(mt, NoneMask, TRUE, "IndexError", np, 0, -1)}
              ELSE {MaskOutcome(mt, Threshold(Rgb2Gray(MaskFile(d.mask_data[index + 1], imgh, imgw))),
                                FALSE, "", np, 0, index)}
         [] OTHER -> MaskFallThrough(mt, np)

LoadMask(d, index) ==
    IF d.mask = 4
    THEN UNION {MaskByType(d, index, IF b = 1 THEN 1 ELSE 3, 1) : b \in {0, 1}}
    ELSE IF d.mask = 5
    THEN UNION {MaskByType(d, index, t, 1) : t \in 1..3}
    ELSE MaskByType(d, index, d.mask, 0)

-----------------------------------------------------------------------------
(* Dataset.load_edge: every outcome for dataset d, sample `index` and the  *)
(* mask load_mask returned (m, or None when `none`).                       *)

NoCall == [called |-> FALSE, sigma |-> 0, given |-> FALSE, region |-> {}]

EdgeOutcome(sigma, call, edge, err, py) ==
    [sigma |-> sigma, call |-> call, edge |-> edge, err |-> err, py |-> py]

\* the detection mask load_edge hands to canny
DetectionMask_Swapped(d, m) ==
    IF ~d.training THEN [given |-> FALSE, region |-> {}]
    ELSE [given |-> TRUE, region |-> InvertMask(m)]

DetectionMask(d, m) ==
    IF d.training THEN [given |-> FALSE, region |-> {}]
    ELSE [given |-> TRUE, region |-> InvertMask(m)]

CannyCall(index, sigma, dm) ==
    [called |-> TRUE, sigma |-> sigma, given |-> dm.given, region |-> dm.region]

LoadEdge(d, index, m, none) ==
    IF ~d.training /\ none
    THEN \* (1 - None / 255)
         {EdgeOutcome(d.sigma, NoCall, {}, "TypeError", 0)}
    ELSE
    LET dm == DetectionMask(d, m)
    IN IF d.edge = 1
       THEN IF d.sigma = -1
            THEN {EdgeOutcome(d.sigma, NoCall, {}, "", 0)}
            ELSE IF d.sigma = 0
            THEN {EdgeOutcome(s, CannyCall(index, s, dm), Canny(index, s, dm), "", 1)
                    : s \in 1..4}
            ELSE {EdgeOutcome(d.sigma, CannyCall(index, d.sigma, dm),
                              Canny(index, d.sigma, dm), "", 0)}
       ELSE IF index >= Len(d.edge_data)
            THEN {EdgeOutcome(d.sigma, NoCall, {}, "IndexError", 0)}
            ELSE LET edge == EdgeFile(d.edge_data[index + 1], d.input_size, d.input_size)
                 IN IF d.nms = 1
                    THEN {EdgeOutcome(d.sigma, CannyCall(index, d.sigma, dm),
                                      edge \cap Canny(index, d.sigma, dm), "", 0)}
                    ELSE {EdgeOutcome(d.sigma, NoCall, edge, "", 0)}

-----------------------------------------------------------------------------
(* Dataset.load_item, one worker's call at a time.  load_mask and          *)
(* load_edge keep the policy choice and the sigma in local variables; the  *)
(* two operators below give the Dataset's attributes after each call.      *)

SelfAfterLoadMask_Stored(d, o) == [d EXCEPT !.mask = o.mask_type]

SelfAfterLoadMask(d, o) == d

SelfAfterLoadEdge(d, o) == d

IdleWorker ==
    [pc |-> "idle", index |-> 0, mask_type |-> 0, mask |-> NoneMask, none |-> TRUE,
     src |-> -1, sigma |-> 0, call |-> NoCall, edge |-> {}, err |-> "",
     flip |-> FALSE, mdraws |-> 0]

\* a draw advances the generator it is taken from
Advance(r, np, py) ==
    [np |-> (r.np + np) % RngStates, py |-> (r.py + py) % RngStates]

\* load_item up to the call of load_mask: read, resize, grey image
Begin(w) ==
    /\ wk[w].pc = "idle"
    /\ \E index \in 0..(DatasetLen(ds) - 1) :
          wk' = [wk EXCEPT ![w] = [IdleWorker EXCEPT !.pc = "load_mask", !.index = index]]
    /\ UNCHANGED <<config, ds, rng, it, net>>

DoLoadMask(w) ==
    /\ wk[w].pc = "load_mask"
    /\ \E o \in LoadMask(ds, wk[w].index) :
          /\ wk' = [wk EXCEPT ![w] =
                      [@ EXCEPT !.pc = IF o.err = "" THEN "load_edge" ELSE "raised",
                                !.mask_type = o.mask_type, !.mask = o.mask,
                                !.none = o.none, !.src = o.src, !.err = o.err,
                                !.mdraws = o.np + o.py]]
          /\ rng' = Advance(rng, o.np, o.py)
          /\ ds' = SelfAfterLoadMask(ds, o)
    /\ UNCHANGED <<config, it, net>>

DoLoadEdge(w) ==
    /\ wk[w].pc = "load_edge"
    /\ \E o \in LoadEdge(ds, wk[w].index, wk[w].mask, wk[w].none) :
          /\ wk' = [wk EXCEPT ![w] =
                      [@ EXCEPT !.pc = IF o.err = "" THEN "augment" ELSE "raised",
                                !.sigma = o.sigma, !.call = o.call, !.edge = o.edge,
                                !.err = o.err]]
          /\ rng' = Advance(rng, 0, o.py)
          /\ ds' = SelfAfterLoadEdge(ds, o)
    /\ UNCHANGED <<config, it, net>>

\* the flip and the four to_tensor calls; a None mask cannot be sliced (a
\* TypeError) nor turned into a tensor (Image.fromarray: an AttributeError)
Augment(w) ==
    /\ wk[w].pc = "augment"
    /\ \E b \in (IF ds.augment THEN {0, 1} ELSE {0}) :
          /\ wk' = [wk EXCEPT ![w] =
                      IF wk[w].none
                      THEN [@ EXCEPT !.pc = "raised",
                                     !.err = IF b > 0 THEN "TypeError" ELSE "AttributeError"]
                      ELSE IF b > 0
                      THEN [@ EXCEPT !.pc = "returned", !.flip = TRUE,
                                     !.edge = FlipSet(@), !.mask = FlipMask(@)]
                      ELSE [@ EXCEPT !.pc = "returned"]]
          /\ rng' = Advance(rng, IF ds.augment THEN 1 ELSE 0, 0)
    /\ UNCHANGED <<config, ds, it, net>>

\* the caller takes the sample (or the exception); the call's locals are gone
Finish(w) ==
    /\ wk[w].pc \in {"returned", "raised"}
    /\ wk' = [wk EXCEPT ![w] = IdleWorker]
    /\ UNCHANGED <<config, ds, rng, it, net>>

-----------------------------------------------------------------------------
(* networks.py: layers act on the spatial size <<h, w>> of a tensor.       *)

\* largest input height and width
MaxSide == 24
\* channels of the ILN module
NumFeatures == 2
\* the gate and the clip limits take the integer values -RhoRange..RhoRange
RhoRange == 2

\* the size of a forward pass that raised
Err == <<-1, -1>>

ReflectionPad2d(p) == [op |-> "pad", k |-> 0, s |-> 1, p |-> p, d |-> 1]
Conv2d(k, s, p, d) == [op |-> "conv", k |-> k, s |-> s, p |-> p, d |-> d]
ConvTranspose2d(k, s, p) == [op |-> "convT", k |-> k, s |-> s, p |-> p, d |-> 1]
Upsample(f) == [op |-> "up", k |-> 0, s |-> f, p |-> 0, d |-> 1]
InstanceNorm2d == [op |-> "in", k |-> 0, s |-> 1, p |-> 0, d |-> 1]
Pointwise == [op |-> "pointwise", k |-> 0, s |-> 1, p |-> 0, d |-> 1]
ReLU == Pointwise
LeakyReLU == [Pointwise EXCEPT !.op = "lrelu"]
ILN == Pointwise
ResBlock(dilation) == [op |-> "res", k |-> 0, s |-> 1, p |-> 0, d |-> dilation]

\* one dimension through a layer; -1 when torch raises
Dim(l, n) ==
    CASE l.op = "pad" -> IF l.p >= n THEN -1 ELSE n + 2 * l.p
      [] l.op = "conv" ->
            LET span == l.d * (l.k - 1) + 1
            IN IF n + 2 * l.p < span THEN -1 ELSE (n + 2 * l.p - span) \div l.s + 1
      [] l.op = "convT" -> (n - 1) * l.s - 2 * l.p + l.k
      [] l.op = "up" -> n * l.s
      [] OTHER -> n

\* x + y on two sizes, with broadcasting of a dimension of 1
AddDim(a, b) == IF a = b THEN a ELSE IF a = 1 THEN b ELSE IF b = 1 THEN a ELSE -1

Add(x, y) ==
    IF x = Err \/ y = Err \/ AddDim(x[1], y[1]) = -1 \/ AddDim(x[2], y[2]) = -1
    THEN Err
    ELSE <<AddDim(x[1], y[1]), AddDim(x[2], y[2])>>

\* ResBlock.conv_block
conv_block(dilation) ==
    <<ReflectionPad2d(dilation), Conv2d(3, 1, 0, dilation), InstanceNorm2d, ReLU,
      ReflectionPad2d(1), Conv2d(3, 1, 0, 1), InstanceNorm2d>>

RECURSIVE Sequential(_, _)
\* nn.Sequential(layers)(x), and ResBlock.forward for a "res" layer
Sequential(layers, x) ==
    IF layers = <<>> \/ x = Err THEN x
    ELSE LET l == Head(layers)
             y == CASE l.op = "res" -> Add(x, Sequential(conv_block(l.d), x))
                    [] l.op = "in" -> IF x[1] * x[2] = 1 THEN Err ELSE x
                    [] OTHER ->
                         IF Dim(l, x[1]) < 1 \/ Dim(l, x[2]) < 1 THEN Err
                         ELSE <<Dim(l, x[1]), Dim(l, x[2])>>
         IN Sequential(Tail(layers), y)

\* EdgeGenerator.__init__
residual_blocks == 8

EG_encoder ==
    <<ReflectionPad2d(3), Conv2d(7, 1, 0, 1), ReLU,
      Conv2d(4, 2, 1, 1), InstanceNorm2d, ReLU,
      Conv2d(4, 2, 1, 1), InstanceNorm2d, ReLU>>

EG_middle == [i \in 1..residual_blocks |-> ResBlock(2)]

EG_alter_decoder ==
    <<Upsample(2), ReflectionPad2d(1), Conv2d(3, 1, 0, 1), ILN, ReLU,
      Upsample(2), ReflectionPad2d(1), Conv2d(3, 1, 0, 1), ILN, ReLU,
      ReflectionPad2d(3), Conv2d(7, 1, 0, 1)>>

EG_decoder_Unpadded ==
    <<ConvTranspose2d(4, 2, 0), InstanceNorm2d, ReLU,
      ConvTranspose2d(4, 2, 1), InstanceNorm2d, ReLU,
      ReflectionPad2d(3), Conv2d(7, 1, 0, 1)>>

EG_decoder ==
    <<ConvTranspose2d(4, 2, 1), InstanceNorm2d, ReLU,
      ConvTranspose2d(4, 2, 1), InstanceNorm2d, ReLU,
      ReflectionPad2d(3), Conv2d(7, 1, 0, 1)>>

\* Discriminator.__init__
D_conv1 == <<ReflectionPad2d(1), Conv2d(4, 2, 0, 1), LeakyReLU>>
D_conv2 == <<ReflectionPad2d(1), Conv2d(4, 2, 0, 1), LeakyReLU>>
D_conv3 == <<ReflectionPad2d(1), Conv2d(4, 2, 0, 1), LeakyReLU>>
D_conv4_Strided == <<ReflectionPad2d(1), Conv2d(4, 2, 0, 1), LeakyReLU>>
D_conv4 == <<ReflectionPad2d(1), Conv2d(4, 1, 0, 1), LeakyReLU>>
D_conv5 == <<ReflectionPad2d(1), Conv2d(4, 1, 0, 1)>>
D_stages == <<D_conv1, D_conv2, D_conv3, D_conv4, D_conv5>>

\* torch's w.clamp(min, max)
Clamp_MinOnly(w, lo, hi) == IF w < lo THEN lo ELSE w

Clamp(w, lo, hi) == IF w < lo THEN lo ELSE IF w > hi THEN hi ELSE w

\* RhoClipper.__init__: the assert fails unless clip_min < clip_max
RhoClipper(clip_min, clip_max) ==
    [ok |-> clip_min < clip_max, clip_min |-> clip_min, clip_max |-> clip_max]

NoClipper == [ok |-> FALSE, clip_min |-> 0, clip_max |-> 0]

RhoValues == (-RhoRange)..RhoRange

NoModule ==
    [module |-> "none", has_rho |-> FALSE, rho |-> <<>>, clipper |-> NoClipper,
     last |-> "init", x |-> Err, flag |-> FALSE, stage |-> "none", cur |-> Err,
     feats |-> <<>>, out |-> Err]

\* ILN.__init__: rho filled with 0.0 (a module of another class has no rho)
NewModule(has_rho, clipper) ==
    [NoModule EXCEPT !.module = IF has_rho THEN "ILN" ELSE "ReLU",
                     !.has_rho = has_rho,
                     !.rho = IF has_rho THEN [c \in 1..NumFeatures |-> 0] ELSE <<>>,
                     !.clipper = clipper]

\* an optimizer step moves the gate of every channel anywhere
OptimizerStep ==
    /\ net.module \in {"ILN", "ReLU"}
    /\ IF net.has_rho
       THEN \E r \in [1..NumFeatures -> RhoValues] :
               net' = [net EXCEPT !.rho = r, !.last = "step"]
       ELSE net' = [net EXCEPT !.last = "step"]
    /\ UNCHANGED <<config, ds, wk, rng, it>>

\* RhoClipper.__call__(module)
Clip ==
    /\ net.module \in {"ILN", "ReLU"}
    /\ net.clipper.ok
    /\ net' = [net EXCEPT
                 !.rho = IF net.has_rho
                         THEN [c \in DOMAIN @ |->
                                 Clamp(@[c], net.clipper.clip_min, net.clipper.clip_max)]
                         ELSE @,
                 !.last = "clip"]
    /\ UNCHANGED <<config, ds, wk, rng, it>>

\* EdgeGenerator.forward, a stage at a time
EG_Encode ==
    /\ net.module = "EdgeGenerator" /\ net.stage = "input"
    /\ net' = [net EXCEPT !.stage = "encoded", !.cur = Sequential(EG_encoder, net.x)]
    /\ UNCHANGED <<config, ds, wk, rng, it>>

EG_Middle ==
    /\ net.module = "EdgeGenerator" /\ net.stage = "encoded"
    /\ net' = [net EXCEPT !.stage = "middle", !.cur = Sequential(EG_middle, @)]
    /\ UNCHANGED <<config, ds, wk, rng, it>>

EG_Decode ==
    /\ net.module = "EdgeGenerator" /\ net.stage = "middle"
    /\ net' = [net EXCEPT !.stage = "decoded",
                          !.cur = IF net.flag THEN Sequential(EG_alter_decoder, @)
                                  ELSE Sequential(EG_decoder, @)]
    /\ UNCHANGED <<config, ds, wk, rng, it>>

\* sigmoid, then x + masked_edge, the middle channel of the input
EG_Output ==
    /\ net.module = "EdgeGenerator" /\ net.stage = "decoded"
    /\ net' = [net EXCEPT !.stage = "returned", !.out = Add(net.cur, net.x)]
    /\ UNCHANGED <<config, ds, wk, rng, it>>

\* a feature map: its size and the function that produced it
Feature(size, by) == [size |-> size, by |-> by]

\* Discriminator.forward: the next of conv1 .. conv5
D_Conv ==
    /\ net.module = "Discriminator" /\ net.stage = "input"
    /\ Len(net.feats) < Len(D_stages)
    /\ LET seq == D_stages[Len(net.feats) + 1]
           y == Sequential(seq, net.cur)
       IN net' = [net EXCEPT !.cur = y,
                             !.feats = Append(@, Feature(y, seq[Len(seq)].op))]
    /\ UNCHANGED <<config, ds, wk, rng, it>>

\* outputs, [conv1, conv2, conv3, conv4, conv5]
D_Return ==
    /\ net.module = "Discriminator" /\ net.stage = "input"
    /\ Len(net.feats) = Len(D_stages)
    /\ net' = [net EXCEPT !.stage = "returned",
                          !.out = net.cur,
                          !.last = IF net.flag THEN "sigmoid" ELSE "conv5"]
    /\ UNCHANGED <<config, ds, wk, rng, it>>

-----------------------------------------------------------------------------
(* Dataset.create_iterator(batch_size): a generator.  It runs only while   *)
(* a next() of its consumer is pending, and suspends at each yield.        *)

\* the iterator bounds: samples in the dataset, batch size, counted passes
MaxSamples == 4
MaxBatch == 3
PassCap == 2

\* DataLoader(dataset=self, batch_size=batch_size, drop_last=True): no
\* shuffle argument, so torch's default (False) stands
SampleLoader_KeepLast(d, batch_size) ==
    [n |-> DatasetLen(d), batch_size |-> batch_size, drop_last |-> FALSE, shuffle |-> FALSE]

SampleLoader_Shuffled(d, batch_size) ==
    [n |-> DatasetLen(d), batch_size |-> batch_size, drop_last |-> TRUE, shuffle |-> TRUE]

SampleLoader(d, batch_size) ==
    [n |-> DatasetLen(d), batch_size |-> batch_size, drop_last |-> TRUE, shuffle |-> FALSE]

\* the orders the loader's sampler can give a pass: SequentialSampler
\* without shuffle, RandomSampler (any permutation) with it
SamplerOrders(l) ==
    IF l.shuffle
    THEN {o \in [1..l.n -> 0..(l.n - 1)] : \A i, j \in 1..l.n : i # j => o[i] # o[j]}
    ELSE {[i \in 1..l.n |-> i - 1]}

NoLoader == [n |-> 0, batch_size |-> 0, drop_last |-> FALSE, shuffle |-> FALSE]

\* the generator object before its first next()
NewIterator(batch_size) ==
    [pc |-> "start", batch_size |-> batch_size, loader |-> NoLoader,
     order |-> <<>>, pos |-> 0, batch |-> <<>>, passlog |-> <<>>, passes |-> 0,
     waiting |-> FALSE, got |-> <<>>, restarts |-> 0]

NoIterator == [NewIterator(0) EXCEPT !.pc = "none"]

\* the consumer calls next(): the generator starts, or resumes after its yield
Request ==
    /\ it.pc \in {"start", "yield"}
    /\ ~it.waiting
    /\ it' = [it EXCEPT !.waiting = TRUE, !.restarts = 0,
                        !.pc = IF it.pc = "start" THEN "while" ELSE "for"]
    /\ UNCHANGED <<config, ds, wk, rng, net>>

\* `while True:` builds the loader of the next pass and enters the for loop
NewPass ==
    /\ it.pc = "while"
    /\ LET l == SampleLoader(ds, it.batch_size)
       IN \E o \in SamplerOrders(l) :
             it' = [it EXCEPT !.pc = "for", !.loader = l, !.order = o, !.pos = 0,
                              !.batch = <<>>, !.passlog = <<>>,
                              !.restarts = IF @ < PassCap THEN @ + 1 ELSE @]
    /\ UNCHANGED <<config, ds, wk, rng, net>>

\* the batch just completed is collated and yielded to the consumer
Yield(i, b) ==
    [i EXCEPT !.pc = "yield", !.batch = <<>>, !.passlog = Append(@, b),
              !.waiting = FALSE, !.got = b]

\* the loader takes the sampler's next index and loads that sample (the
\* load is taken to succeed); a full batch is yielded
Fetch ==
    /\ it.pc = "for"
    /\ it.pos < it.loader.n
    /\ LET b == Append(it.batch, it.order[it.pos + 1])
           i == [it EXCEPT !.pos = @ + 1, !.batch = b]
       IN it' = IF Len(b) = it.loader.batch_size THEN Yield(i, b) ELSE i
    /\ UNCHANGED <<config, ds, wk, rng, net>>

\* the sampler is exhausted: a trailing short batch is yielded unless
\* drop_last, else the for loop ends and the while loop goes round
EndPass ==
    /\ it.pc = "for"
    /\ it.pos = it.loader.n
    /\ it' = IF it.batch # <<>> /\ ~it.loader.drop_last
             THEN Yield(it, it.batch)
             ELSE [it EXCEPT !.pc = "while", !.batch = <<>>,
                             !.passes = IF @ < PassCap THEN @ + 1 ELSE @]
    /\ UNCHANGED <<config, ds, wk, rng, net>>

IterConfig ==
    [MODE |-> 1, MASK |-> 1, EDGE |-> 1, SIGMA |-> 2, NMS |-> 0, INPUT_SIZE |-> InputSize]

InitIter ==
    /\ config = IterConfig
    /\ \E n \in 0..MaxSamples :
          ds = DatasetInit(config, [i \in 1..n |-> i], [i \in 1..n |-> i],
                           [i \in 1..n |-> i], TRUE, TRUE)
    /\ wk = [w \in Workers |-> IdleWorker]
    /\ rng = [np |-> 0, py |-> 0]
    /\ \E batch_size \in 1..MaxBatch : it = NewIterator(batch_size)
    /\ net = NoModule

NextIter ==
    \/ Request
    \/ NewPass
    \/ Fetch
    \/ EndPass

-----------------------------------------------------------------------------
(* The network modules, one at a time.                                     *)

Sizes == (1..MaxSide) \X (1..MaxSide)

InitNet ==
    /\ config = IterConfig
    /\ ds = DatasetInit(config, <<>>, <<>>, <<>>, TRUE, TRUE)
    /\ wk = [w \in Workers |-> IdleWorker]
    /\ rng = [np |-> 0, py |-> 0]
    /\ it = NoIterator
    /\ \/ \E has_rho \in BOOLEAN, clip_min \in RhoValues, clip_max \in RhoValues :
             net = NewModule(has_rho, RhoClipper(clip_min, clip_max))
       \/ \E x \in Sizes, flag \in BOOLEAN, m \in {"EdgeGenerator", "Discriminator"} :
             net = [NoModule EXCEPT !.module = m, !.x = x, !.cur = x, !.flag = flag,
                                    !.stage = "input"]

NextNet ==
    \/ OptimizerStep
    \/ Clip
    \/ EG_Encode
    \/ EG_Middle
    \/ EG_Decode
    \/ EG_Output
    \/ D_Conv
    \/ D_Return

-----------------------------------------------------------------------------
(* The Dataset pipeline with one caller: every configuration.              *)

Configs ==
    [MODE : {1, 2}, MASK : 1..7, EDGE : 1..3, SIGMA : {-1, 0, 2}, NMS : {0, 1},
     INPUT_SIZE : {InputSize}]

FileList == [i \in 1..NumImages |-> i]

InitData ==
    /\ config \in Configs
    /\ \E augment \in BOOLEAN, training \in BOOLEAN, mask_flist \in {<<>>, FileList} :
          ds = DatasetInit(config, FileList, FileList, mask_flist, augment, training)
    /\ wk = [w \in Workers |-> IdleWorker]
    /\ rng = [np |-> 0, py |-> 0]
    /\ it = NoIterator
    /\ net = NoModule

NextData ==
    \/ Begin(1)
    \/ DoLoadMask(1)
    \/ DoLoadEdge(1)
    \/ Augment(1)
    \/ Finish(1)

vars == <<config, ds, wk, rng, it, net>>

\* the generator runs on while a next() call is pending: its two internal
\* steps are weakly fair; the consumer may stop asking
SpecIter == InitIter /\ [][NextIter]_vars /\ WF_vars(NewPass) /\ WF_vars(Fetch) /\ WF_vars(EndPass)

SpecNet == InitNet /\ [][NextNet]_vars

Spec == InitData /\ [][NextData]_vars

-----------------------------------------------------------------------------
(* load_item called by several workers at once on one Dataset: in         *)
(* training with the mask policies that choose per call (4 and 5) and a    *)
(* per-call sigma, and in evaluation mode with every mask policy.          *)

WorkerConfigs ==
    [MODE : {1}, MASK : {4, 5}, EDGE : {1}, SIGMA : {0}, NMS : {0},
     INPUT_SIZE : {InputSize}]

EvalConfigs ==
    [MODE : {2}, MASK : 1..7, EDGE : {1}, SIGMA : {2}, NMS : {0},
     INPUT_SIZE : {InputSize}]

InitWorkers ==
    /\ config \in WorkerConfigs \cup EvalConfigs
    /\ IF config.MODE = 1
       THEN ds = DatasetInit(config, <<1>>, <<1>>, <<1>>, FALSE, TRUE)
       ELSE \E training \in BOOLEAN, mask_flist \in {<<>>, FileList} :
               ds = DatasetInit(config, FileList, FileList, mask_flist, FALSE, training)
    /\ wk = [w \in Workers |-> IdleWorker]
    /\ rng = [np |-> 0, py |-> 0]
    /\ it = NoIterator
    /\ net = NoModule

NextWorkers ==
    \E w \in Workers :
        \/ Begin(w)
        \/ DoLoadMask(w)
        \/ DoLoadEdge(w)
        \/ Augment(w)
        \/ Finish(w)

SpecWorkers == InitWorkers /\ [][NextWorkers]_vars

-----------------------------------------------------------------------------
(* Properties of the Dataset pipeline.                                     *)

\* the worker's load_mask has just returned / its load_edge has just returned
AfterLoadMask(w) == wk[w].pc = "load_edge"
AfterLoadEdge(w) == wk[w].pc = "augment"

\* C1 as stated: with the detector policy the detector is given the inverted
\* hole mask in training and no mask in evaluation, so in training no edge
\* lies inside the hole
C1_AsStated ==
    \A w \in Workers :
        (AfterLoadEdge(w) /\ ds.edge = 1 /\ wk[w].call.called) =>
            IF ds.training
            THEN /\ wk[w].call.given
                 /\ wk[w].call.region = Pixels \ Hole(wk[w].mask)
                 /\ wk[w].edge \cap Hole(wk[w].mask) = {}
            ELSE ~wk[w].call.given

\* C1 amended: with the detector policy the detector is given no mask in
\* training, and the inverted hole mask in evaluation, so in evaluation no
\* edge lies inside the hole
C1_MaskedInEvaluation ==
    \A w \in Workers :
        (AfterLoadEdge(w) /\ ds.edge = 1 /\ wk[w].call.called) =>
            IF ds.training
            THEN /\ ~wk[w].call.given
                 /\ wk[w].edge = RawEdges(wk[w].index, wk[w].call.sigma)
            ELSE /\ wk[w].call.given
                 /\ wk[w].call.region = Pixels \ Hole(wk[w].mask)
                 /\ wk[w].edge \cap Hole(wk[w].mask) = {}

\* an evaluation-mode detector call on a sample whose hole holds edges the
\* unmasked detector would report
C1_Witness ==
    \E w \in Workers :
        /\ AfterLoadEdge(w) /\ ds.edge = 1 /\ wk[w].call.called
        /\ ~ds.training
        /\ RawEdges(wk[w].index, wk[w].call.sigma) \cap Hole(wk[w].mask) # {}
        /\ wk[w].edge # {}

\* C3: in evaluation mode (config.MODE = 2), whatever the configured mask
\* policy, a load_mask call that returns takes the mask from entry `index` of
\* the mask list and draws nothing at random, and two calls for the same
\* index return the same mask
C3_EvalMaskDeterministic ==
    config.MODE = 2 =>
        \A w \in Workers :
            /\ wk[w].pc = "raised" /\ wk[w].mask_type # 0 => wk[w].mdraws = 0
            /\ AfterLoadMask(w) =>
                /\ wk[w].mask_type = 6
                /\ wk[w].src = wk[w].index
                /\ wk[w].mdraws = 0
                /\ ~wk[w].none
                /\ wk[w].mask =
                     Threshold(MaskFile(ds.mask_data[wk[w].index + 1],
                                        ds.input_size, ds.input_size))
                /\ \A v \in Workers :
                      AfterLoadMask(v) /\ wk[v].index = wk[w].index
                          => wk[v].mask = wk[w].mask

\* in evaluation mode with a random mask policy configured, two calls for
\* the same index have returned their masks
C3_Witness ==
    \E v, w \in Workers :
        /\ v # w
        /\ config.MODE = 2 /\ config.MASK \in {2, 3, 4, 5}
        /\ AfterLoadMask(v) /\ AfterLoadMask(w)
        /\ wk[v].index = wk[w].index
        /\ Hole(wk[w].mask) # {}

\* C4 as stated: with a mask policy id outside 1..6, or an edge policy id
\* outside {1, 2}, load_mask / load_edge raise an unimplemented-configuration
\* error: they return nothing and fall back to no other policy
C4_AsStated ==
    \A w \in Workers :
        /\ ds.mask \notin 1..6 => ~AfterLoadMask(w)
        /\ ds.edge \notin {1, 2} => ~AfterLoadEdge(w)
        /\ (ds.mask \notin 1..6 \/ ds.edge \notin {1, 2}) /\ wk[w].pc = "raised"
              => wk[w].err = "NotImplementedError"

\* the result of load_edge's external branch (the policy of edge id 2)
ExternalEdge(w) ==
    LET file == EdgeFile(ds.edge_data[wk[w].index + 1], ds.input_size, ds.input_size)
    IN IF ds.nms = 1
       THEN file \cap Canny(wk[w].index, ds.sigma, DetectionMask(ds, wk[w].mask))
       ELSE file

\* C4 amended: no unimplemented-configuration error is ever raised.  With a
\* mask policy id outside 1..6 load_mask draws nothing and returns None
\* without raising, and load_item fails later with a TypeError or an
\* AttributeError on the None (or an IndexError of the edge list) and never
\* returns a sample; with an edge policy id other than 1, load_edge follows
\* the external-edge policy
C4_NoUnimplementedError ==
    \A w \in Workers :
        /\ wk[w].err # "NotImplementedError"
        /\ ds.mask \notin 1..6 /\ wk[w].pc \in {"load_edge", "augment", "raised", "returned"} =>
              /\ wk[w].none /\ wk[w].mdraws = 0
              /\ wk[w].pc # "returned"
              /\ wk[w].pc = "raised" =>
                    wk[w].err \in {"TypeError", "AttributeError", "IndexError"}
        /\ ds.edge \notin {1, 2} /\ AfterLoadEdge(w) =>
              /\ wk[w].edge = ExternalEdge(w)
              /\ wk[w].sigma = ds.sigma
              /\ wk[w].call.called <=> ds.nms = 1

\* load_mask has returned None under mask id 7 and load_edge has returned the
\* external edge map under edge id 3
C4_Witness ==
    \E w \in Workers :
        /\ ds.mask = 7 /\ ds.edge = 3
        /\ AfterLoadEdge(w) /\ wk[w].none /\ wk[w].edge # {}

\* C7: no step of any worker's load_item call writes a Dataset attribute or
\* the Config; the policy chosen and the sigma drawn for a call live in the
\* call's locals
C7_NoAttributeWrites ==
    [][/\ ds' = ds
       /\ config' = config
       /\ \A w \in Workers :
             /\ config.MODE = 1 /\ wk'[w].pc = "load_edge"
                   => wk'[w].mask_type \in {1, 2, 3} /\ ds'.mask \in {4, 5}
             /\ config.MODE = 1 /\ wk'[w].pc = "augment"
                   => wk'[w].sigma \in 1..4 /\ ds'.sigma = 0]_vars

\* two workers are inside load_item at once, with different policies chosen
\* and different sigmas drawn, and the global generators have moved
C7_Witness ==
    \E v, w \in Workers :
        /\ v # w
        /\ wk[v].pc = "augment" /\ wk[w].pc = "augment"
        /\ wk[v].mask_type # wk[w].mask_type
        /\ wk[v].sigma # wk[w].sigma
        /\ rng # [np |-> 0, py |-> 0]

-----------------------------------------------------------------------------
(* Properties of create_iterator.                                          *)

RECURSIVE Flatten(_)
\* the batches of a pass, one after the other
Flatten(batches) ==
    IF batches = <<>> THEN <<>> ELSE Head(batches) \o Flatten(Tail(batches))

\* full batches in a pass over the dataset
FullBatches == DatasetLen(ds) \div it.batch_size

\* C5: the generator never finishes; within a pass every batch yielded has
\* exactly batch_size samples, and when the pass ends exactly
\* floor(N / batch_size) batches were yielded, which hold the first
\* floor(N / batch_size) * batch_size samples of the pass's order and none of
\* the trailing N mod batch_size
C5_FullBatchesOnly ==
    /\ it.pc \in {"start", "while", "for", "yield"}
    /\ \A k \in 1..Len(it.passlog) : Len(it.passlog[k]) = it.batch_size
    /\ Len(it.passlog) <= FullBatches
    /\ it.pc = "while" /\ it.passes > 0 =>
          /\ Len(it.passlog) = FullBatches
          /\ Flatten(it.passlog) = SubSeq(it.order, 1, FullBatches * it.batch_size)
          /\ \A k \in (FullBatches * it.batch_size + 1)..DatasetLen(ds) :
                \A j \in 1..Len(it.passlog) :
                    \A x \in 1..Len(it.passlog[j]) : it.passlog[j][x] # it.order[k]

\* a second pass has ended, having yielded a batch and dropped a trailing one
C5_Witness ==
    /\ it.pc = "while" /\ it.passes >= 2
    /\ Len(it.passlog) >= 1
    /\ DatasetLen(ds) % it.batch_size # 0

\* C6 as stated: the order of a pass is drawn anew, so a pass over two or
\* more samples could have taken another order than the one it has
C6_AsStated ==
    it.pc = "for" /\ DatasetLen(ds) >= 2 =>
        \E o \in SamplerOrders(it.loader) : o # it.order

\* C6 amended: every pass visits the sample indices in the same ascending
\* order 0, 1, ..., N - 1: the loader is built without shuffle
C6_SequentialOrder ==
    it.pc \in {"for", "yield"} =>
        /\ ~it.loader.shuffle
        /\ it.order = [i \in 1..DatasetLen(ds) |-> i - 1]
        /\ Flatten(it.passlog) \o it.batch = SubSeq(it.order, 1, it.pos)

\* a later pass over two or more samples has yielded a batch
C6_Witness ==
    /\ it.pc = "yield" /\ it.passes >= 1
    /\ DatasetLen(ds) >= 2
    /\ Len(it.got) >= 2

\* C10: with len(dataset) >= batch_size every pending next() is answered,
\* after at most one new pass began; with len(dataset) < batch_size nothing is
\* ever yielded, the generator never finishes and a pending next() sees pass
\* after pass begin
C10_AnsweredIffEnoughSamples ==
    /\ (it.waiting /\ DatasetLen(ds) >= it.batch_size) ~> ~it.waiting
    /\ [](DatasetLen(ds) >= it.batch_size => it.restarts <= 1)
    /\ [](DatasetLen(ds) < it.batch_size =>
             /\ it.got = <<>> /\ it.passlog = <<>>
             /\ it.pc \in {"start", "while", "for"})
    /\ (it.waiting /\ DatasetLen(ds) < it.batch_size) ~> (it.restarts = PassCap)
    /\ [](it.waiting /\ DatasetLen(ds) < it.batch_size => [](it.waiting))

\* a next() that was pending when a pass ran out of samples has been answered
\* from the following pass
C10_Witness ==
    /\ it.pc = "yield" /\ ~it.waiting
    /\ it.restarts = 1 /\ it.passes >= 1
    /\ Len(it.got) = it.batch_size

-----------------------------------------------------------------------------
(* Properties of the network modules.                                      *)

InClip(v) == net.clipper.clip_min <= v /\ v <= net.clipper.clip_max

\* C2: in every state that directly follows a RhoClipper call on an ILN
\* module, the gate of every channel lies in [clip_min, clip_max], whatever
\* the optimizer steps before it did; and the call leaves a gate that is
\* already inside the interval unchanged
C2_GateClamped ==
    /\ [](net.module = "ILN" /\ net.last = "clip" =>
             \A c \in 1..NumFeatures : InClip(net.rho[c]))
    /\ [][net.module = "ILN" /\ net'.last = "clip" =>
             \A c \in 1..NumFeatures : InClip(net.rho[c]) => net'.rho[c] = net.rho[c]]_vars

\* after optimizer steps a clamp has pulled one channel's gate down to a
\* negative clip_max and another's up to clip_min
C2_Witness ==
    /\ net.module = "ILN" /\ net.last = "clip"
    /\ net.rho[1] = net.clipper.clip_max /\ net.clipper.clip_max < 0
    /\ net.rho[2] = net.clipper.clip_min

\* the inputs EdgeGenerator.forward accepts: both sides multiples of 4, and
\* large enough for the residual blocks' reflection padding of 2
EG_Accepts(x) == x[1] % 4 = 0 /\ x[2] % 4 = 0 /\ x[1] >= 12 /\ x[2] >= 12

\* C8: EdgeGenerator.forward returns for exactly the inputs whose height and
\* width are multiples of 4 from 12 up, and for each of them, with either
\* decoder, the output has the input's height and width
C8_SizePreserved ==
    net.module = "EdgeGenerator" =>
        /\ net.stage = "decoded" /\ EG_Accepts(net.x) => net.cur = net.x
        /\ net.stage = "returned" =>
              /\ net.out # Err => net.out = net.x
              /\ net.out # Err <=> EG_Accepts(net.x)

\* forward has returned for a non-square input through the default decoder
C8_Witness ==
    /\ net.module = "EdgeGenerator" /\ net.stage = "returned"
    /\ ~net.flag
    /\ net.out = net.x /\ net.x[1] # net.x[2]

\* the output size of a kernel-4 padding-1 stage of stride 2, and of stride 1
Halved(size) == <<size[1] \div 2, size[2] \div 2>>
Shrunk(size) == <<size[1] - 1, size[2] - 1>>

\* the input of stage k
D_Input(k) == IF k = 1 THEN net.x ELSE net.feats[k - 1].size

\* what C9 and its amendment share: five feature maps are returned, in
\* order, LeakyReLU follows the first four stages only, and the output is
\* stage 5 or its sigmoid
D_ReturnsFive ==
    /\ Len(net.feats) = 5
    /\ \A k \in 1..4 : net.feats[k].by = "lrelu"
    /\ net.feats[5].by = "conv"
    /\ net.out = net.feats[5].size
    /\ net.last = IF net.flag THEN "sigmoid" ELSE "conv5"

\* C9 as stated: the first 4 of the 5 kernel-4 stages have stride 2 and the
\* last has stride 1
C9_AsStated ==
    net.module = "Discriminator" /\ net.stage = "returned" /\ net.out # Err =>
        /\ D_ReturnsFive
        /\ \A k \in 1..4 : net.feats[k].size = Halved(D_Input(k))
        /\ net.feats[5].size = Shrunk(D_Input(5))

\* C9 amended: the first 3 of the 5 kernel-4 stages have stride 2 and the
\* last 2 have stride 1; LeakyReLU(0.2) follows the first 4 stages and none
\* the fifth; forward returns the output with the 5 stage outputs in order
C9_ThreeStrided ==
    /\ \A k \in 1..5 : D_stages[k][2].op = "conv" /\ D_stages[k][2].k = 4
    /\ \A k \in 1..3 : D_stages[k][2].s = 2
    /\ \A k \in 4..5 : D_stages[k][2].s = 1
    /\ net.module = "Discriminator" /\ net.stage = "returned" /\ net.out # Err =>
          /\ D_ReturnsFive
          /\ \A k \in 1..3 : net.feats[k].size = Halved(D_Input(k))
          /\ \A k \in 4..5 : net.feats[k].size = Shrunk(D_Input(k))

\* forward has returned for an input on which a stride of 2 in stage 4 would
\* give another size than the stride of 1
C9_Witness ==
    /\ net.module = "Discriminator" /\ net.stage = "returned" /\ net.out # Err
    /\ net.flag
    /\ Halved(D_Input(4)) # Shrunk(D_Input(4))

====
